---- MODULE Spec2Model ----
(***************************************************************************)
(* JoinGo front end: the WebRTC voice mesh.                                *)
(*                                                                         *)
(*   - the voice service (services/webrtc: startVoiceChat, ensurePeer,     *)
(*     teardownPeer, stopVoiceChat), a module-level singleton;            *)
(*   - the useVoiceWebRTC hook (createPeer, destroyPeer, connect,          *)
(*     disconnect), the second implementation of the same tracker;        *)
(*   - a room of several browsers that each run the voice service, with   *)
(*     the signaling relay between them.                                   *)
(*                                                                         *)
(* socket.io-client and simple-peer are libraries outside the repository:  *)
(* what the model takes from them is stated where it is used.              *)
(***************************************************************************)
EXTENDS Integers, Sequences, FiniteSets, TLC

\* ------------------------------------------------------------------ bounds
NumPeers == 2        \* remote browsers of the room, as seen by one browser
MaxCalls == 1        \* startVoiceChat calls in flight at the same time
MaxHandlers == 2     \* handler sets registered on one socket
MaxStreams == 2      \* media streams obtained and not yet stopped
MaxRoster == 2       \* length of an `introduction` roster

(* Socket ids are opaque strings that the code only compares: the remote     *)
(* browsers are 1..NumPeers and the relay hands this browser the next one.   *)
LocalId == NumPeers + 1
Ids == 1..LocalId    \* the ids an event may name, the local one included
ObjIds == Ids        \* the objects whose events the environment delivers
CallIds == 1..MaxCalls
StreamIds == 1..MaxStreams
Data == {1, 2}            \* signaling payloads: an offer, an answer
Meetings == {1}           \* meeting ids

\* null / undefined (socket.id is undefined while the socket is not connected)
Null == 0

\* All sequences over S of length at most n.
SeqsUpTo(S, n) == UNION {[1..k -> S] : k \in 0..n}

Rosters == SeqsUpTo(Ids, MaxRoster)

\* The ids whose `new Peer(...)` throws in one handler run: none, or one.
Failings == {{}} \cup {{i} : i \in Ids}

Range(f) == {f[x] : x \in DOMAIN f}

Count(seq, x) == Cardinality({i \in 1..Len(seq) : seq[i] = x})

RECURSIVE SetToSeq(_)
SetToSeq(S) ==
    IF S = {} THEN <<>>
    ELSE LET x == CHOOSE y \in S : \A z \in S : y <= z
         IN  <<x>> \o SetToSeq(S \ {x})

\* ------------------------------------------------------------ voice service
VARIABLES
    voice,      \* the module state of services/webrtc and the objects it made
    starts,     \* the startVoiceChat calls in flight: where each one is waiting
    hook,       \* one mounted useVoiceWebRTC: its refs, state and objects
    mesh,       \* a room: the voice service state of each browser in it
    net,        \* a room: the events the relay has sent and not yet delivered
    joined,     \* a room: the browsers connected to the relay, in join order
    wire,       \* a room: which connections have emitted / been fed a signal
    vsession,   \* one mounted useVoiceSession, its timer, its requests, the clock
    vconfig,    \* the last getVoiceConfig call: environment, answer, outcome
    chat,       \* the ChatService singleton, its socket and the auth store it reads
    api,        \* the API client: auth store, shared refresh, calls, token requests
    uchat,      \* one mounted useChat: its messages and its history loads
    room        \* MeetingRoom's voice effect: the starts it issued and their cleanups

notVoice == <<hook, mesh, net, joined, wire, vsession, vconfig, chat, api, uchat, room>>
notHook == <<voice, starts, mesh, net, joined, wire, vsession, vconfig, chat, api, uchat, room>>
notMesh == <<voice, starts, hook, vsession, vconfig, chat, api, uchat, room>>
notSession == <<voice, starts, hook, mesh, net, joined, wire, vconfig, chat, api, uchat, room>>
notConfig == <<voice, starts, hook, mesh, net, joined, wire, vsession, chat, api, uchat, room>>
notChat == <<voice, starts, hook, mesh, net, joined, wire, vsession, vconfig, api, uchat, room>>

(* The calls a handler made, as the last step left them: which connections   *)
(* it constructed, on which it called destroy() and signal(), which          *)
(* onPeerLeft callbacks it invoked, whether it called socket.disconnect()    *)
(* and the stream whose tracks it stopped; `escaped` is set when an          *)
(* exception left the handler.                                               *)
EmptyLog(op) ==
    [op |-> op, peer |-> Null, constructed |-> <<>>, destroyCalls |-> <<>>,
     left |-> <<>>, signalled |-> <<>>, escaped |-> FALSE,
     closedSocket |-> FALSE, stoppedStream |-> Null]

NoSocket == [open |-> FALSE, id |-> Null, handlers |-> 0, meetingId |-> Null]

EmptyMap == [x \in {} |-> Null]

InitVoice ==
    [peers |-> EmptyMap,            \* const peers = new Map()
     socket |-> NoSocket,           \* let socket = null
     localStream |-> Null,          \* let localStream = null
     currentMeetingId |-> Null,     \* let currentMeetingId = null
     conns |-> EmptyMap,            \* the simple-peer objects not yet released
     streams |-> EmptyMap,          \* the streams of getUserMedia not yet stopped
     tornDown |-> {},               \* ids whose record was torn down this session
     log |-> EmptyLog("init")]

\* The identity of a newly constructed object: the first one not in use.
FreeObj(conns) ==
    LET free == (1..(Cardinality(DOMAIN conns) + 1)) \ DOMAIN conns
    IN  CHOOSE o \in free : \A q \in free : o <= q

Remove(f, x) == [y \in (DOMAIN f) \ {x} |-> f[y]]

LiveObjs(s, peerId) ==
    {o \in DOMAIN s.conns : s.conns[o].peerId = peerId /\ ~s.conns[o].destroyed}

\* ensurePeer without its `peers.has(peerId)` lookup.
EnsurePeerNoLookup(s, peerId, initiator, failing) ==
    IF ~s.socket.open \/ peerId = s.socket.id
    THEN [st |-> s, ret |-> Null, threw |-> FALSE]
    ELSE IF peerId \in failing
    THEN [st |-> [s EXCEPT !.log.escaped = TRUE], ret |-> Null, threw |-> TRUE]
    ELSE LET o == FreeObj(s.conns)
         IN  [st |-> [s EXCEPT
                        !.conns = @ @@ (o :> [peerId |-> peerId,
                                              initiator |-> initiator,
                                              listeners |-> TRUE,
                                              destroyed |-> FALSE,
                                              stream |-> s.localStream,
                                              cause |-> s.log.op]),
                        !.peers = (peerId :> o) @@ @,
                        !.tornDown = @ \ {peerId},
                        !.log.constructed =
                            Append(@, [peerId |-> peerId,
                                       initiator |-> initiator, obj |-> o])],
              ret |-> o, threw |-> FALSE]

(* ensurePeer: null without a socket or for the local id; the existing      *)
(* connection when the id is in `peers`; otherwise a new Peer with its       *)
(* listeners, stored in `peers`. `new Peer` may throw: nothing catches it.   *)
EnsurePeer(s, peerId, initiator, failing) ==
    IF ~s.socket.open \/ peerId = s.socket.id
    THEN [st |-> s, ret |-> Null, threw |-> FALSE]
    ELSE IF peerId \in DOMAIN s.peers
    THEN [st |-> s, ret |-> s.peers[peerId], threw |-> FALSE]
    ELSE IF peerId \in failing
    THEN [st |-> [s EXCEPT !.log.escaped = TRUE], ret |-> Null, threw |-> TRUE]
    ELSE LET o == FreeObj(s.conns)
         IN  [st |-> [s EXCEPT
                        !.conns = @ @@ (o :> [peerId |-> peerId,
                                              initiator |-> initiator,
                                              listeners |-> TRUE,
                                              destroyed |-> FALSE,
                                              stream |-> s.localStream,
                                              cause |-> s.log.op]),
                        !.peers = @ @@ (peerId :> o),
                        !.tornDown = @ \ {peerId},
                        !.log.constructed =
                            Append(@, [peerId |-> peerId,
                                       initiator |-> initiator, obj |-> o])],
              ret |-> o, threw |-> FALSE]

(* peer.signal(data) of simple-peer: throws on a destroyed peer.             *)
PeerSignal(s, o, data) ==
    IF s.conns[o].destroyed
    THEN [s EXCEPT !.log.escaped = TRUE]
    ELSE [s EXCEPT !.log.signalled = Append(@, [obj |-> o, data |-> data])]

\* teardownPeer that reports the peer as gone whether or not it had a record.
TeardownPeerAlwaysNotify(s, peerId) ==
    IF peerId \in DOMAIN s.peers
    THEN LET o == s.peers[peerId]
         IN  [s EXCEPT !.conns = Remove(@, o),
                       !.peers = Remove(@, peerId),
                       !.tornDown = @ \cup {peerId},
                       !.log.destroyCalls = Append(@, o),
                       !.log.left = Append(@, peerId)]
    ELSE [s EXCEPT !.log.left = Append(@, peerId)]

(* teardownPeer: for an id in `peers`, removeAllListeners, destroy, delete,  *)
(* onPeerLeft. With its listeners removed the object announces no close, so  *)
(* it is released at once.                                                   *)
TeardownPeer(s, peerId) ==
    IF peerId \in DOMAIN s.peers
    THEN LET o == s.peers[peerId]
         IN  [s EXCEPT !.conns = Remove(@, o),
                       !.peers = Remove(@, peerId),
                       !.tornDown = @ \cup {peerId},
                       !.log.destroyCalls = Append(@, o),
                       !.log.left = Append(@, peerId)]
    ELSE s

RECURSIVE ForEachEnsure(_, _, _, _)
ForEachEnsure(s, remotePeers, i, failing) ==
    IF i > Len(remotePeers) THEN s
    ELSE LET r == EnsurePeer(s, remotePeers[i], TRUE, failing)
         IN  IF r.threw THEN r.st
             ELSE ForEachEnsure(r.st, remotePeers, i + 1, failing)

\* socketInstance.on("introduction", ...)
OnIntroduction(s, remotePeers, failing) ==
    ForEachEnsure(s, remotePeers, 1, failing)

\* The join handler taking the initiator role.
OnNewUserConnectedAsInitiator(s, peerId, failing) ==
    EnsurePeer(s, peerId, TRUE, failing).st

\* socketInstance.on("newUserConnected", ...)
OnNewUserConnected(s, peerId, failing) ==
    EnsurePeer(s, peerId, FALSE, failing).st

\* The signal handler routing to an existing record only.
OnSignalNoCreate(s, to, from, data, failing) ==
    IF to # s.socket.id \/ from \notin DOMAIN s.peers THEN s
    ELSE PeerSignal(s, s.peers[from], data)

\* The signal handler creating the missing record as initiator.
OnSignalAsInitiator(s, to, from, data, failing) ==
    IF to # s.socket.id THEN s
    ELSE LET r == EnsurePeer(s, from, TRUE, failing)
         IN  IF r.threw \/ r.ret = Null THEN r.st
             ELSE PeerSignal(r.st, r.ret, data)

\* socketInstance.on("signal", ...)
OnSignal(s, to, from, data, failing) ==
    IF to # s.socket.id THEN s
    ELSE LET r == EnsurePeer(s, from, FALSE, failing)
         IN  IF r.threw \/ r.ret = Null THEN r.st
             ELSE PeerSignal(r.st, r.ret, data)

\* socketInstance.on("userDisconnected", ...)
OnUserDisconnected(s, peerId) == TeardownPeer(s, peerId)

\* socketInstance.on("disconnect", ...): emits "socket-disconnect" on
\* voiceEvents, which nothing in the repository listens to.
OnDisconnect(s) == s

Handle(s, ev) ==
    CASE ev.name = "introduction" -> OnIntroduction(s, ev.roster, ev.failing)
      [] ev.name = "newUserConnected" -> OnNewUserConnected(s, ev.peer, ev.failing)
      [] ev.name = "signal" -> OnSignal(s, ev.to, ev.peer, ev.data, ev.failing)
      [] ev.name = "userDisconnected" -> OnUserDisconnected(s, ev.peer)
      [] ev.name = "disconnect" -> OnDisconnect(s)

Event(name, peer, to, data, roster, failing) ==
    [name |-> name, peer |-> peer, to |-> to, data |-> data,
     roster |-> roster, failing |-> failing]

EventLog(ev) ==
    [EmptyLog(ev.name) EXCEPT !.peer = ev.peer]

(* One event of the socket: every startVoiceChat that completed on this      *)
(* socket registered its own set of handlers, and the emitter calls them in  *)
(* turn; an exception thrown by one ends the emit.                           *)
RECURSIVE Dispatch(_, _, _)
Dispatch(s, ev, n) ==
    IF n = 0 \/ s.log.escaped THEN s
    ELSE Dispatch(Handle(s, ev), ev, n - 1)

Deliver(s, ev) ==
    Dispatch([s EXCEPT !.log = EventLog(ev)], ev, s.socket.handlers)

\* stopVoiceChat without its `peers.clear()`.
StopVoiceChatKeepMap(s) ==
    [s EXCEPT
       !.conns = [o \in DOMAIN @ |->
                    IF o \in Range(s.peers) THEN [@[o] EXCEPT !.destroyed = TRUE]
                    ELSE @[o]],
       !.socket = NoSocket,
       !.streams = Remove(@, s.localStream),
       !.localStream = Null,
       !.currentMeetingId = Null,
       !.tornDown = {},
       !.log = [EmptyLog("stopVoiceChat") EXCEPT
                  !.destroyCalls = SetToSeq(Range(s.peers)),
                  !.closedSocket = s.socket.open,
                  !.stoppedStream = s.localStream]]

(* stopVoiceChat: destroy every peer (their listeners stay, so each will     *)
(* announce its close), clear the map, close and forget the socket, stop and *)
(* forget the local stream.                                                  *)
StopVoiceChatState(s) ==
    [s EXCEPT
       !.conns = [o \in DOMAIN @ |->
                    IF o \in Range(s.peers) THEN [@[o] EXCEPT !.destroyed = TRUE]
                    ELSE @[o]],
       !.peers = EmptyMap,
       !.socket = NoSocket,
       !.streams = Remove(@, s.localStream),
       !.localStream = Null,
       !.currentMeetingId = Null,
       !.tornDown = {},
       !.log = [EmptyLog("stopVoiceChat") EXCEPT
                  !.destroyCalls = SetToSeq(Range(s.peers)),
                  !.closedSocket = s.socket.open,
                  !.stoppedStream = s.localStream]]

\* A destroyed simple-peer object emits `close` in a microtask, before any
\* other event is handled.
ClosePending(s) == \E o \in DOMAIN s.conns : s.conns[o].destroyed

InFlight == {k \in CallIds : starts[k].pc # "idle"}

Idle == [pc |-> "idle", meetingId |-> Null]

\* A stream as getUserMedia hands it out: its audio track is enabled.
NewStream(streams) == streams @@ (FreeObj(streams) :> [enabled |-> TRUE])

\* startVoiceChat up to its first await.
StartVoiceChat(k, m) ==
    /\ ~ClosePending(voice)
    /\ starts[k].pc = "idle"
    /\ voice.socket.handlers + Cardinality(InFlight) < MaxHandlers
    /\ IF m = Null
       THEN /\ voice' = [voice EXCEPT !.log = EmptyLog("startVoiceChat")]
            /\ UNCHANGED starts
       ELSE /\ voice' = [voice EXCEPT !.currentMeetingId = m,
                                      !.log = EmptyLog("startVoiceChat")]
            /\ starts' = [starts EXCEPT ![k] = [pc |-> "getUserMedia", meetingId |-> m]]
    /\ UNCHANGED notVoice

\* getUserMedia resolved: localStream is set, then createSocket: an existing
\* socket is returned as it is and the handlers are registered on it; else a
\* socket is opened and the call waits for its `connect`.
MediaGranted(k) ==
    /\ ~ClosePending(voice)
    /\ starts[k].pc = "getUserMedia"
    /\ Cardinality(DOMAIN voice.streams) < MaxStreams
    /\ IF voice.socket.open
       THEN /\ voice' = [voice EXCEPT !.streams = NewStream(@),
                                      !.localStream = FreeObj(voice.streams),
                                      !.socket.handlers = @ + 1,
                                      !.log = EmptyLog("startReturned")]
            /\ starts' = [starts EXCEPT ![k] = Idle]
       ELSE /\ voice' = [voice EXCEPT
                           !.streams = NewStream(@),
                           !.localStream = FreeObj(voice.streams),
                           !.socket = [open |-> TRUE, id |-> Null, handlers |-> 0,
                                       meetingId |-> starts[k].meetingId],
                           !.log = EmptyLog("createSocket")]
            /\ starts' = [starts EXCEPT ![k].pc = "connect"]
    /\ UNCHANGED notVoice

\* getUserMedia rejected: startVoiceChat rejects.
MediaDenied(k) ==
    /\ ~ClosePending(voice)
    /\ starts[k].pc = "getUserMedia"
    /\ voice' = [voice EXCEPT !.log = EmptyLog("mediaDenied")]
    /\ starts' = [starts EXCEPT ![k] = Idle]
    /\ UNCHANGED notVoice

\* The socket's `connect` (first connection or a reconnection): the server
\* assigns the id; a call waiting in createSocket registers its handlers.
SocketConnect ==
    /\ ~ClosePending(voice)
    /\ voice.socket.open /\ voice.socket.id = Null
    /\ LET waiting == {k \in CallIds : starts[k].pc = "connect"}
       IN  /\ voice' = [voice EXCEPT
                          !.socket.id = LocalId,
                          !.socket.handlers = @ + Cardinality(waiting),
                          !.log = EmptyLog("connect")]
           /\ starts' = [k \in CallIds |-> IF k \in waiting THEN Idle ELSE starts[k]]
    /\ UNCHANGED notVoice

\* `connect_error` while createSocket waits: the call rejects, `socket` stays.
SocketConnectError(k) ==
    /\ ~ClosePending(voice)
    /\ starts[k].pc = "connect"
    /\ voice.socket.id = Null
    /\ voice' = [voice EXCEPT !.log = EmptyLog("connect_error")]
    /\ starts' = [starts EXCEPT ![k] = Idle]
    /\ UNCHANGED notVoice

\* The transport dropped: socket.id becomes undefined, `disconnect` is emitted.
SocketDisconnect ==
    /\ ~ClosePending(voice)
    /\ voice.socket.open /\ voice.socket.id # Null
    /\ voice' = [Deliver(voice, Event("disconnect", Null, Null, Null, <<>>, {}))
                   EXCEPT !.socket.id = Null]
    /\ UNCHANGED starts
    /\ UNCHANGED notVoice

CanReceive(s) == ~ClosePending(s) /\ s.socket.open /\ s.socket.id # Null

\* The ids a handler run would construct a connection for; only the failure
\* of one of these constructions can be told from no failure.
Constructible(s, ids) == (ids \ DOMAIN s.peers) \ {s.socket.id}

Introduction(roster, failing) ==
    /\ CanReceive(voice)
    /\ failing \subseteq Constructible(voice, Range(roster))
    /\ voice' = Deliver(voice, Event("introduction", Null, Null, Null, roster, failing))
    /\ UNCHANGED starts
    /\ UNCHANGED notVoice

NewUserConnected(peerId, failing) ==
    /\ CanReceive(voice)
    /\ failing \subseteq Constructible(voice, {peerId})
    /\ voice' = Deliver(voice, Event("newUserConnected", peerId, Null, Null, <<>>, failing))
    /\ UNCHANGED starts
    /\ UNCHANGED notVoice

Signal(to, from, data, failing) ==
    /\ CanReceive(voice)
    /\ failing \subseteq (IF to = voice.socket.id
                          THEN Constructible(voice, {from}) ELSE {})
    /\ voice' = Deliver(voice, Event("signal", from, to, data, <<>>, failing))
    /\ UNCHANGED starts
    /\ UNCHANGED notVoice

UserDisconnected(peerId) ==
    /\ CanReceive(voice)
    /\ voice' = Deliver(voice, Event("userDisconnected", peerId, Null, Null, <<>>, {}))
    /\ UNCHANGED starts
    /\ UNCHANGED notVoice

(* A connection closes or fails by itself (remote end gone, ICE failure):    *)
(* simple-peer destroys the object and emits `error` and/or `close`; the     *)
(* first listener to run is teardownPeer(peerId), which removes the others.  *)
PeerClosed(o, op) ==
    /\ ~ClosePending(voice)
    /\ o \in DOMAIN voice.conns
    /\ voice.conns[o].listeners /\ ~voice.conns[o].destroyed
    /\ LET s1 == [voice EXCEPT !.conns[o].destroyed = TRUE,
                               !.log = [EmptyLog(op) EXCEPT
                                          !.peer = voice.conns[o].peerId]]
           s2 == TeardownPeer(s1, voice.conns[o].peerId)
       IN  voice' = [s2 EXCEPT !.conns = Remove(@, o)]
    /\ UNCHANGED starts
    /\ UNCHANGED notVoice

\* The `close` of an object that stopVoiceChat destroyed: its listener runs
\* teardownPeer(peerId).
CloseEmitted(o) ==
    /\ o \in DOMAIN voice.conns
    /\ voice.conns[o].destroyed
    /\ LET s1 == [voice EXCEPT !.log = [EmptyLog("lateClose") EXCEPT
                                          !.peer = voice.conns[o].peerId]]
           s2 == IF voice.conns[o].listeners
                 THEN TeardownPeer(s1, voice.conns[o].peerId) ELSE s1
       IN  voice' = [s2 EXCEPT !.conns = Remove(@, o)]
    /\ UNCHANGED starts
    /\ UNCHANGED notVoice

(* stopVoiceChat; a call still waiting for the socket's `connect` never     *)
(* settles, its listener having been removed. The caller may call it again   *)
(* at once, ahead of the `close` of the objects it destroyed.                *)
StopVoiceChat ==
    /\ voice' = StopVoiceChatState(voice)
    /\ starts' = [k \in CallIds |->
                    IF starts[k].pc = "connect" THEN Idle ELSE starts[k]]
    /\ UNCHANGED notVoice

\* setMicrophoneEnabled: nothing without a local stream, else the flag of
\* its audio tracks is set.
SetMicrophoneEnabledState(s, enabled) ==
    IF s.localStream = Null THEN s
    ELSE [s EXCEPT !.streams[s.localStream].enabled = enabled]

SetMicrophoneEnabled(enabled) ==
    /\ ~ClosePending(voice)
    /\ voice' = [SetMicrophoneEnabledState(voice, enabled) EXCEPT
                   !.log = [EmptyLog("setMicrophoneEnabled") EXCEPT
                              !.peer = IF enabled THEN 1 ELSE Null]]
    /\ UNCHANGED starts
    /\ UNCHANGED notVoice

Next ==
    \/ \E k \in CallIds, m \in {Null} \cup Meetings : StartVoiceChat(k, m)
    \/ \E k \in CallIds : MediaGranted(k)
    \/ \E k \in CallIds : MediaDenied(k)
    \/ SocketConnect
    \/ \E k \in CallIds : SocketConnectError(k)
    \/ SocketDisconnect
    \/ \E roster \in Rosters, failing \in Failings : Introduction(roster, failing)
    \/ \E p \in Ids, failing \in Failings : NewUserConnected(p, failing)
    \/ \E to \in Ids, from \in Ids, d \in Data, failing \in Failings :
          Signal(to, from, d, failing)
    \/ \E p \in Ids : UserDisconnected(p)
    \/ \E o \in ObjIds, op \in {"close", "error"} : PeerClosed(o, op)
    \/ \E o \in ObjIds : CloseEmitted(o)
    \/ StopVoiceChat
    \/ \E enabled \in BOOLEAN : SetMicrophoneEnabled(enabled)

\* ------------------------------------------------------------ useVoiceWebRTC
MaxHookObjs == 2     \* simple-peer objects of the hook not yet released
MaxSockets == 2      \* sockets the hook has opened and not closed

HookObjIds == 1..MaxHookObjs
SockIds == 1..MaxSockets

InitHook ==
    [socketRef |-> Null,                 \* useRef<Socket | null>(null)
     peersRef |-> EmptyMap,              \* useRef(new Map())
     isMountedRef |-> TRUE,              \* useRef(true)
     localStreamRef |-> FALSE,           \* useRef(null): is there a stream
     connectionState |-> "disconnected", \* useState('disconnected')
     error |-> FALSE,                    \* useState(null): is there an error
     sockets |-> EmptyMap,               \* the sockets opened and not closed
     conns |-> EmptyMap,                 \* the simple-peer objects not yet released
     log |-> EmptyLog("init")]

NewConn(peerId, initiator, cause) ==
    [peerId |-> peerId, initiator |-> initiator, listeners |-> TRUE,
     destroyed |-> FALSE, cause |-> cause]

(* createPeer: null without a local stream; otherwise a new Peer with its    *)
(* listeners, stored in peersRef under peerId whatever was there.            *)
CreatePeer(h, peerId, initiator) ==
    IF ~h.localStreamRef THEN [st |-> h, ret |-> Null]
    ELSE LET o == FreeObj(h.conns)
         IN  [st |-> [h EXCEPT
                        !.conns = @ @@ (o :> NewConn(peerId, initiator, "hook")),
                        !.peersRef = (peerId :> o) @@ @,
                        !.log.constructed =
                            Append(@, [peerId |-> peerId,
                                       initiator |-> initiator, obj |-> o])],
              ret |-> o]

(* destroyPeer: destroy and delete the connection peersRef holds for peerId  *)
(* (its listeners stay, so it will announce its close); when mounted, drop   *)
(* the remote peer and call onPeerDisconnect.                                *)
DestroyPeer(h, peerId) ==
    LET h1 == IF peerId \in DOMAIN h.peersRef
              THEN LET o == h.peersRef[peerId]
                   IN  [h EXCEPT !.conns[o].destroyed = TRUE,
                                 !.peersRef = Remove(@, peerId),
                                 !.log.destroyCalls = Append(@, o)]
              ELSE h
    IN  IF h1.isMountedRef THEN [h1 EXCEPT !.log.left = Append(@, peerId)] ELSE h1

RECURSIVE ForEachCreate(_, _, _)
ForEachCreate(h, peerIds, i) ==
    IF i > Len(peerIds) THEN h
    ELSE ForEachCreate(CreatePeer(h, peerIds[i], TRUE).st, peerIds, i + 1)

\* socket.on('introduction', ...)
HookOnIntroduction(h, peerIds) == ForEachCreate(h, peerIds, 1)

\* socket.on('newUserConnected', ...)
HookOnNewUserConnected(h, peerId) == CreatePeer(h, peerId, FALSE).st

\* socket.on('signal', ...): `to` is not looked at.
HookOnSignal(h, to, from, signalData) ==
    LET r == IF from \in DOMAIN h.peersRef
             THEN [st |-> h, ret |-> h.peersRef[from]]
             ELSE CreatePeer(h, from, FALSE)
    IN  IF r.ret # Null THEN PeerSignal(r.st, r.ret, signalData) ELSE r.st

\* socket.on('userDisconnected', ...)
HookOnUserDisconnected(h, peerId) == DestroyPeer(h, peerId)

HookClosePending(h) == \E o \in DOMAIN h.conns : h.conns[o].destroyed

HookStep(op, peer) == [hook EXCEPT !.log = [EmptyLog(op) EXCEPT !.peer = peer]]

\* The `localStream` prop changed; the effect copies it into localStreamRef.
HookSetLocalStream(stream) ==
    /\ ~HookClosePending(hook)
    /\ hook.isMountedRef
    /\ hook.localStreamRef # stream
    /\ hook' = [HookStep("setLocalStream", Null) EXCEPT !.localStreamRef = stream]
    /\ UNCHANGED notHook

(* connect(): returns without config, session or local stream; reports an    *)
(* error without a server URL; otherwise opens a socket, stores it in        *)
(* socketRef and registers the handlers on it.                               *)
HookConnect(config, session, serverUrl) ==
    /\ ~HookClosePending(hook)
    /\ hook.isMountedRef
    /\ Cardinality(DOMAIN hook.sockets) < MaxSockets
    /\ LET h == HookStep("connect()", Null)
           k == CHOOSE q \in SockIds \ DOMAIN hook.sockets :
                    \A r \in SockIds \ DOMAIN hook.sockets : q <= r
       IN  hook' =
             IF ~config \/ ~session THEN h
             ELSE IF ~hook.localStreamRef THEN h
             ELSE IF ~serverUrl THEN [h EXCEPT !.error = TRUE]
             ELSE [h EXCEPT !.connectionState = "connecting",
                            !.error = FALSE,
                            !.sockets = @ @@ (k :> [id |-> Null]),
                            !.socketRef = k]
    /\ UNCHANGED notHook

\* socket.on('connect', ...): the relay has assigned the socket its id. The
\* hook treats all ids alike, so the k-th socket is given the id k.
HookSocketConnect(k) ==
    /\ ~HookClosePending(hook)
    /\ k \in DOMAIN hook.sockets /\ hook.sockets[k].id = Null
    /\ hook' = [HookStep("connect", Null) EXCEPT
                  !.sockets[k].id = k,
                  !.connectionState = IF hook.isMountedRef THEN "connected" ELSE @]
    /\ UNCHANGED notHook

HookCanReceive(k) ==
    /\ ~HookClosePending(hook)
    /\ k \in DOMAIN hook.sockets /\ hook.sockets[k].id # Null

HookRoom(n) == Cardinality(DOMAIN hook.conns) + n <= MaxHookObjs

HookIntroduction(k, peerIds) ==
    /\ HookCanReceive(k) /\ HookRoom(Len(peerIds))
    /\ hook' = HookOnIntroduction(HookStep("introduction", Null), peerIds)
    /\ UNCHANGED notHook

HookNewUserConnected(k, peerId) ==
    /\ HookCanReceive(k) /\ HookRoom(1)
    /\ hook' = HookOnNewUserConnected(HookStep("newUserConnected", peerId), peerId)
    /\ UNCHANGED notHook

HookSignal(k, to, from, signalData) ==
    /\ HookCanReceive(k) /\ HookRoom(1)
    /\ hook' = HookOnSignal(HookStep("signal", from), to, from, signalData)
    /\ UNCHANGED notHook

HookUserDisconnected(k, peerId) ==
    /\ HookCanReceive(k)
    /\ hook' = HookOnUserDisconnected(HookStep("userDisconnected", peerId), peerId)
    /\ UNCHANGED notHook

\* socket.on('error', ...) and socket.on('connect_error', ...)
HookSocketError(k, op) ==
    /\ ~HookClosePending(hook)
    /\ k \in DOMAIN hook.sockets
    /\ IF op = "connect_error" THEN hook.sockets[k].id = Null
                               ELSE hook.sockets[k].id # Null
    /\ hook' = IF hook.isMountedRef
               THEN [HookStep(op, Null) EXCEPT !.error = TRUE,
                                               !.connectionState = "error"]
               ELSE HookStep(op, Null)
    /\ UNCHANGED notHook

\* socket.on('disconnect', ...) for a drop of the transport.
HookSocketDisconnect(k) ==
    /\ HookCanReceive(k)
    /\ hook' = [HookStep("disconnect", Null) EXCEPT
                  !.sockets[k].id = Null,
                  !.connectionState = IF hook.isMountedRef THEN "disconnected" ELSE @]
    /\ UNCHANGED notHook

\* Destroy every connection of peersRef and clear it; close socketRef's socket.
HookTeardown(h, notify) ==
    [h EXCEPT
       !.conns = [o \in DOMAIN @ |->
                    IF o \in Range(h.peersRef) THEN [@[o] EXCEPT !.destroyed = TRUE]
                    ELSE @[o]],
       !.peersRef = EmptyMap,
       !.sockets = IF h.socketRef # Null THEN Remove(@, h.socketRef) ELSE @,
       !.socketRef = Null,
       !.log.destroyCalls = SetToSeq(Range(h.peersRef)),
       !.log.left = IF notify THEN SetToSeq(DOMAIN h.peersRef) ELSE <<>>]

\* disconnect()
HookDisconnect ==
    /\ ~HookClosePending(hook)
    /\ hook.isMountedRef
    /\ hook' = [HookTeardown(HookStep("disconnect()", Null), TRUE) EXCEPT
                  !.connectionState = "disconnected", !.error = FALSE]
    /\ UNCHANGED notHook

\* The cleanup of the mount effect.
HookUnmount ==
    /\ ~HookClosePending(hook)
    /\ hook.isMountedRef
    /\ hook' = [HookTeardown(HookStep("unmount", Null), FALSE) EXCEPT
                  !.isMountedRef = FALSE]
    /\ UNCHANGED notHook

(* A connection closes or fails by itself: simple-peer destroys the object   *)
(* and emits `error` (when it failed) and `close`; each listener runs        *)
(* destroyPeer(peerId).                                                      *)
HookPeerClosed(o, op) ==
    /\ ~HookClosePending(hook)
    /\ o \in DOMAIN hook.conns
    /\ LET p == hook.conns[o].peerId
           h1 == [HookStep(op, p) EXCEPT !.conns[o].destroyed = TRUE]
           h2 == IF op = "error" THEN DestroyPeer(h1, p) ELSE h1
           h3 == DestroyPeer(h2, p)
       IN  hook' = [h3 EXCEPT !.conns = Remove(@, o)]
    /\ UNCHANGED notHook

\* The `close` of an object the hook destroyed: its listener runs
\* destroyPeer(peerId).
HookCloseEmitted(o) ==
    /\ o \in DOMAIN hook.conns
    /\ hook.conns[o].destroyed
    /\ LET p == hook.conns[o].peerId
       IN  hook' = [DestroyPeer(HookStep("lateClose", p), p) EXCEPT
                      !.conns = Remove(@, o)]
    /\ UNCHANGED notHook

NextHook ==
    \/ \E stream \in BOOLEAN : HookSetLocalStream(stream)
    \/ \E config \in BOOLEAN, session \in BOOLEAN, serverUrl \in BOOLEAN :
          HookConnect(config, session, serverUrl)
    \/ \E k \in SockIds : HookSocketConnect(k)
    \/ \E k \in SockIds, peerIds \in Rosters : HookIntroduction(k, peerIds)
    \/ \E k \in SockIds, p \in Ids : HookNewUserConnected(k, p)
    \/ \E k \in SockIds, to \in Ids, from \in Ids, d \in Data : HookSignal(k, to, from, d)
    \/ \E k \in SockIds, p \in Ids : HookUserDisconnected(k, p)
    \/ \E k \in SockIds, op \in {"error", "connect_error"} : HookSocketError(k, op)
    \/ \E k \in SockIds : HookSocketDisconnect(k)
    \/ HookDisconnect
    \/ HookUnmount
    \/ \E o \in HookObjIds, op \in {"close", "error"} : HookPeerClosed(o, op)
    \/ \E o \in HookObjIds : HookCloseEmitted(o)


\* --------------------------------------------------------------- the room
NumClients == 2      \* browsers that join the room

\* Each browser is handed its own number as socket id.
Clients == 1..NumClients

Position(seq, x) == CHOOSE i \in 1..Len(seq) : seq[i] = x

\* startVoiceChat of browser c up to its first await.
MeshStart(c) ==
    /\ mesh[c].currentMeetingId = Null
    /\ mesh' = [mesh EXCEPT ![c].currentMeetingId = 1,
                            ![c].log = EmptyLog("startVoiceChat")]
    /\ UNCHANGED <<net, joined, wire>>
    /\ UNCHANGED notMesh

\* getUserMedia resolved: localStream is set and createSocket opens the socket.
MeshMediaGranted(c) ==
    /\ mesh[c].currentMeetingId # Null
    /\ mesh[c].localStream = Null /\ ~mesh[c].socket.open
    /\ mesh' = [mesh EXCEPT
                  ![c].streams = NewStream(@),
                  ![c].localStream = FreeObj(mesh[c].streams),
                  ![c].socket = [open |-> TRUE, id |-> Null, handlers |-> 0,
                                 meetingId |-> mesh[c].currentMeetingId],
                  ![c].log = EmptyLog("createSocket")]
    /\ UNCHANGED <<net, joined, wire>>
    /\ UNCHANGED notMesh

(* The socket of browser c connects: startVoiceChat registers its handlers   *)
(* and returns. The relay sends `introduction` with the other sockets of the *)
(* room to c alone and `newUserConnected(c)` to the others.                  *)
MeshJoin(c) ==
    /\ mesh[c].socket.open /\ mesh[c].socket.id = Null
    /\ mesh' = [mesh EXCEPT ![c].socket.id = c,
                            ![c].socket.handlers = 1,
                            ![c].log = EmptyLog("connect")]
    /\ joined' = Append(joined, c)
    /\ net' = net
            \cup {[to |-> c,
                   ev |-> Event("introduction", Null, Null, Null, joined, {})]}
            \cup {[to |-> b,
                   ev |-> Event("newUserConnected", c, Null, Null, <<>>, {})] :
                  b \in Range(joined)}
    /\ UNCHANGED wire
    /\ UNCHANGED notMesh

(* The connection of c toward p emits its signaling data: an initiator its   *)
(* offer once constructed, a responder its answer once it was fed the offer. *)
(* peer.on("signal") hands it to the socket, and the relay forwards it to p. *)
MeshEmit(c, p) ==
    /\ p \in DOMAIN mesh[c].peers
    /\ <<c, p, "emitted">> \notin wire
    /\ LET conn == mesh[c].conns[mesh[c].peers[p]]
       IN  /\ conn.initiator \/ <<c, p, "fed">> \in wire
           /\ net' = net \cup
                {[to |-> p,
                  ev |-> Event("signal", mesh[c].socket.id, p,
                               IF conn.initiator THEN 1 ELSE 2, <<>>, {})]}
    /\ wire' = wire \cup {<<c, p, "emitted">>}
    /\ UNCHANGED <<mesh, joined>>
    /\ UNCHANGED notMesh

\* The relay's events reach a browser in any order.
MeshDeliver(m) ==
    /\ m \in net
    /\ m.to \in Range(joined)
    /\ LET s == Deliver(mesh[m.to], m.ev)
       IN  /\ mesh' = [mesh EXCEPT ![m.to] = s]
           /\ wire' = IF s.log.signalled # <<>>
                      THEN wire \cup {<<m.to, m.ev.peer, "fed">>} ELSE wire
    /\ net' = net \ {m}
    /\ UNCHANGED joined
    /\ UNCHANGED notMesh

NextMesh ==
    \/ \E c \in Clients : MeshStart(c)
    \/ \E c \in Clients : MeshMediaGranted(c)
    \/ \E c \in Clients : MeshJoin(c)
    \/ \E c \in Clients, p \in Clients : MeshEmit(c, p)
    \/ \E m \in net : MeshDeliver(m)

\* ----------------------------------------------------------- useVoiceSession
MaxTicks == 24                \* how far the clock runs, in steps of MinDelayMs

REFRESH_BUFFER_MS == 60000
MinDelayMs == 5000            \* the floor of the renewal delay

\* The lifetimes the backend gives a session, in ms from its answer (the
\* usual one is five minutes).
Lifetimes == {30000, 90000, 300000}

Kinds == {"config", "create", "renew", "manual"}

Max(a, b) == IF a >= b THEN a ELSE b

InitSession ==
    [now |-> 0,                  \* Date.now()
     config |-> FALSE,           \* useState(null): is there a config
     session |-> Null,           \* useState(null): expiresAt of the session held
     isLoading |-> FALSE,        \* useState(false)
     error |-> FALSE,            \* useState(null): is there an error
     timer |-> Null,             \* the pending timeout of refreshTimerRef: when it fires
     isMountedRef |-> TRUE,      \* useRef(true)
     pending |-> {},             \* the requests in flight
     disconnected |-> FALSE,     \* disconnect() was called, and connect() not since
     log |-> [op |-> "init", onError |-> FALSE, onSessionReady |-> FALSE]]

SessionLog(op) == [op |-> op, onError |-> FALSE, onSessionReady |-> FALSE]

ClearRefreshTimer(v) == [v EXCEPT !.timer = Null]

\* getTokenExpirationMs and isTokenExpiringSoon of services/voice.
GetTokenExpirationMs(expiresAt, now) == Max(0, expiresAt - now)

IsTokenExpiringSoon(expiresAt, now, bufferMs) ==
    GetTokenExpirationMs(expiresAt, now) < bufferMs

\* scheduleRefresh: clear the timer, arm a new one `delay` from now.
RefreshDelay(expiresAt, now) ==
    Max(expiresAt - now - REFRESH_BUFFER_MS, MinDelayMs)

ScheduleRefresh(v, expiresAt) ==
    [ClearRefreshTimer(v) EXCEPT !.timer = v.now + RefreshDelay(expiresAt, v.now)]

\* A renewal (by the timer or by refreshSession) was answered with a session.
OnRenewed(v, expiresAt) ==
    IF v.isMountedRef
    THEN ScheduleRefresh([v EXCEPT !.session = expiresAt], expiresAt)
    ELSE v

\* A failed renewal that also drops the session held.
OnRenewFailedDropsSession(v) ==
    IF v.isMountedRef
    THEN [ClearRefreshTimer(v) EXCEPT !.session = Null, !.error = TRUE,
                                      !.log.onError = TRUE]
    ELSE v

\* A renewal failed: setError and onError, nothing else.
OnRenewFailed(v) ==
    IF v.isMountedRef
    THEN [v EXCEPT !.error = TRUE, !.log.onError = TRUE]
    ELSE v

SessionStep(v, op) == [v EXCEPT !.log = SessionLog(op)]

\* connect(): isLoading, no error, then fetchConfig.
VsConnect ==
    /\ vsession.isMountedRef
    /\ vsession.pending \cap {"config", "create"} = {}
    /\ vsession' = [SessionStep(vsession, "connect") EXCEPT
                      !.isLoading = TRUE, !.error = FALSE,
                      !.disconnected = FALSE,
                      !.pending = @ \cup {"config"}]
    /\ UNCHANGED notSession

\* getVoiceConfig answered (it never rejects); connect goes on to
\* createSession, which requests a session.
VsConfigFetched ==
    /\ "config" \in vsession.pending
    /\ vsession' = [SessionStep(vsession, "configFetched") EXCEPT
                      !.config = @ \/ vsession.isMountedRef,
                      !.pending = (@ \ {"config"}) \cup {"create"}]
    /\ UNCHANGED notSession

\* createSession got its session: setSession, scheduleRefresh,
\* onSessionReady; connect's finally clears isLoading.
VsSessionCreated(lifetime) ==
    /\ "create" \in vsession.pending
    /\ LET v == [SessionStep(vsession, "sessionCreated") EXCEPT
                   !.pending = @ \ {"create"}]
           expiresAt == v.now + lifetime
       IN  vsession' =
             IF v.isMountedRef
             THEN [ScheduleRefresh([v EXCEPT !.session = expiresAt], expiresAt)
                     EXCEPT !.log.onSessionReady = TRUE, !.isLoading = FALSE]
             ELSE v
    /\ UNCHANGED notSession

\* createSession failed: setError, onError; connect swallows the error.
VsSessionCreateFailed ==
    /\ "create" \in vsession.pending
    /\ LET v == [SessionStep(vsession, "sessionCreateFailed") EXCEPT
                   !.pending = @ \ {"create"}]
       IN  vsession' =
             IF v.isMountedRef
             THEN [v EXCEPT !.error = TRUE, !.log.onError = TRUE,
                            !.isLoading = FALSE]
             ELSE v
    /\ UNCHANGED notSession

\* The timer of scheduleRefresh fires: while mounted it requests a session.
VsTimerFired ==
    /\ vsession.timer # Null /\ vsession.timer = vsession.now
    /\ "renew" \notin vsession.pending
    /\ vsession' = [SessionStep(vsession, "timerFired") EXCEPT
                      !.timer = Null,
                      !.pending = IF vsession.isMountedRef
                                  THEN @ \cup {"renew"} ELSE @]
    /\ UNCHANGED notSession

\* refreshSession(): only for a session that expires within two buffers.
VsRefreshSession ==
    /\ vsession.isMountedRef
    /\ "manual" \notin vsession.pending
    /\ vsession' = [SessionStep(vsession, "refreshSession") EXCEPT
                      !.pending =
                          IF /\ vsession.session # Null
                             /\ IsTokenExpiringSoon(vsession.session, vsession.now,
                                                    REFRESH_BUFFER_MS * 2)
                          THEN @ \cup {"manual"} ELSE @]
    /\ UNCHANGED notSession

VsRenewed(kind, lifetime) ==
    /\ kind \in {"renew", "manual"} \cap vsession.pending
    /\ LET v == [SessionStep(vsession, IF kind = "renew" THEN "renewed"
                                       ELSE "refreshed")
                   EXCEPT !.pending = @ \ {kind}]
       IN  vsession' = OnRenewed(v, v.now + lifetime)
    /\ UNCHANGED notSession

VsRenewFailed(kind) ==
    /\ kind \in {"renew", "manual"} \cap vsession.pending
    /\ LET v == [SessionStep(vsession, IF kind = "renew" THEN "renewFailed"
                                       ELSE "refreshFailed")
                   EXCEPT !.pending = @ \ {kind}]
       IN  vsession' = OnRenewFailed(v)
    /\ UNCHANGED notSession

\* disconnect(): clear the timer, forget session and error.
VsDisconnect ==
    /\ vsession.isMountedRef
    /\ vsession' = [ClearRefreshTimer(SessionStep(vsession, "disconnect")) EXCEPT
                      !.session = Null, !.error = FALSE, !.disconnected = TRUE]
    /\ UNCHANGED notSession

\* The cleanup of the mount effect.
VsUnmount ==
    /\ vsession.isMountedRef
    /\ vsession' = [ClearRefreshTimer(SessionStep(vsession, "unmount")) EXCEPT
                      !.isMountedRef = FALSE]
    /\ UNCHANGED notSession

\* Time passes, up to the moment the pending timer is due.
VsAdvance ==
    /\ vsession.now < MaxTicks * MinDelayMs
    /\ vsession.timer # Null => vsession.now + MinDelayMs <= vsession.timer
    /\ vsession' = [SessionStep(vsession, "advance") EXCEPT !.now = @ + MinDelayMs]
    /\ UNCHANGED notSession

NextSession ==
    \/ VsConnect
    \/ VsConfigFetched
    \/ \E lifetime \in Lifetimes : VsSessionCreated(lifetime)
    \/ VsSessionCreateFailed
    \/ VsTimerFired
    \/ VsRefreshSession
    \/ \E kind \in Kinds, lifetime \in Lifetimes : VsRenewed(kind, lifetime)
    \/ \E kind \in Kinds : VsRenewFailed(kind)
    \/ VsDisconnect
    \/ VsUnmount
    \/ VsAdvance

\* ------------------------------------------------------------ getVoiceConfig
(* Strings are sequences of pieces, so that `${a}/ws` is a concatenation;    *)
(* Unset stands for an environment variable that is not set.                 *)
Unset == <<"undefined">>

Urls == {<<>>, <<"https://voice.example">>}

IceUrls == {<<>>, <<"ice.example:3478">>}

Secrets == {<<"secret">>}

Envs ==
    [VITE_WEBRTC_URL : {Unset} \cup Urls,
     VITE_ICE_SERVER_URL : {Unset} \cup IceUrls,
     VITE_ICE_SERVER_USERNAME : {Unset} \cup Secrets,
     VITE_ICE_SERVER_CREDENTIAL : {Unset} \cup Secrets]

\* What the backend may answer to GET /api/voice/config.
BackendConfigs ==
    [voiceServerUrl : {<<"https://backend.example">>},
     signalUrl : {<<>>, <<"https://backend.example", "/signal">>},
     iceServers : {<<>>, <<[urls |-> <<"stun:", "backend.example">>]>>},
     requiresToken : BOOLEAN]

\* The outcomes of apiFetch: a configuration, or an ApiError with its status
\* (0 for a network failure).
Answers ==
    [ok : {TRUE}, config : BackendConfigs, status : {200}]
      \cup [ok : {FALSE}, config : {Null}, status : {0, 401, 500}]

\* getLocalIceServers: nothing without VITE_ICE_SERVER_URL, else a TURN
\* entry with the credentials and a STUN entry.
GetLocalIceServers(env) ==
    IF env.VITE_ICE_SERVER_URL = Unset \/ env.VITE_ICE_SERVER_URL = <<>>
    THEN <<>>
    ELSE <<[urls |-> <<"turn:">> \o env.VITE_ICE_SERVER_URL,
            username |-> env.VITE_ICE_SERVER_USERNAME,
            credential |-> env.VITE_ICE_SERVER_CREDENTIAL],
           [urls |-> <<"stun:">> \o env.VITE_ICE_SERVER_URL]>>

\* getWebRTCServerUrl: VITE_WEBRTC_URL ?? 'http://localhost:9000'.
GetWebRTCServerUrl(env) ==
    IF env.VITE_WEBRTC_URL = Unset THEN <<"http://localhost:9000">>
    ELSE env.VITE_WEBRTC_URL

\* getVoiceConfig that lets the failure of the request through.
GetVoiceConfigNoFallback(env, answer) ==
    IF answer.ok THEN [threw |-> FALSE, value |-> answer.config]
    ELSE [threw |-> TRUE, value |-> Null]

\* getVoiceConfig: the backend's configuration, or the local one when the
\* request fails.
GetVoiceConfig(env, answer) ==
    IF answer.ok THEN [threw |-> FALSE, value |-> answer.config]
    ELSE LET webrtcUrl == GetWebRTCServerUrl(env)
         IN  [threw |-> FALSE,
              value |-> [voiceServerUrl |-> webrtcUrl,
                         signalUrl |-> webrtcUrl \o <<"/ws">>,
                         iceServers |-> GetLocalIceServers(env),
                         requiresToken |-> TRUE]]

InitConfig == [called |-> FALSE, env |-> Null, answer |-> Null, result |-> Null]

\* One call of getVoiceConfig, in some environment, answered somehow.
GetVoiceConfigCall(env, answer) ==
    /\ vconfig' = [called |-> TRUE, env |-> env, answer |-> answer,
                   result |-> GetVoiceConfig(env, answer)]
    /\ UNCHANGED notConfig

NextConfig == \E env \in Envs, answer \in Answers : GetVoiceConfigCall(env, answer)

\* --------------------------------------------------------------- ChatService
MaxEmits == 3        \* events emitted on one connection of the chat socket

ChatMeetings == {1, 2}
ChatUsers == {1}

\* The reasons socket.io gives for a `disconnect` it did not get from the
\* client; after "io server disconnect" the socket does not reconnect.
DropReasons == {"transport close", "io server disconnect"}

ChatLog(op) == [op |-> op, notified |-> <<>>]

\* No socket; else the socket with the user and meeting of the connect() that
\* made it, whether it will (re)connect, and what it emitted since it
\* connected.
NoChatSocket ==
    [open |-> FALSE, connected |-> FALSE, active |-> FALSE, user |-> Null,
     meetingId |-> Null, emitted |-> <<>>]

InitChat ==
    [url |-> "unloaded",             \* CHAT_SERVICE_URL: is it configured
     socket |-> NoChatSocket,        \* private socket = null
     currentMeetingId |-> Null,      \* private currentMeetingId = null
     currentUserId |-> Null,         \* private currentUserId = null
     connectionState |-> "disconnected",
     user |-> Null,                  \* useAuthStore: user
     tokens |-> FALSE,               \* useAuthStore: is there an idToken
     log |-> ChatLog("init")]

\* setConnectionState: store the state and tell every subscriber.
SetConnectionState(c, state) ==
    [c EXCEPT !.connectionState = state, !.log.notified = Append(@, state)]

ChatEmit(c, event) == [c EXCEPT !.socket.emitted = Append(@, event)]

\* joinRoom: nothing without socket or user, else remember the user and emit.
JoinRoom(c, meetingId) ==
    IF ~c.socket.open \/ c.user = Null THEN c
    ELSE ChatEmit([c EXCEPT !.currentUserId = c.user], "joinRoom")

LeaveRoom(c, meetingId) ==
    IF ~c.socket.open THEN c ELSE ChatEmit(c, "leave-room")

\* The `disconnect` listener of setupEventListeners without its test of the
\* reason.
OnSetupDisconnectAnyReason(c, reason) == SetConnectionState(c, "error")

\* The `disconnect` listener of setupEventListeners.
OnSetupDisconnect(c, reason) ==
    IF reason # "io client disconnect" THEN SetConnectionState(c, "error") ELSE c

\* The `disconnect` listener that connect() adds.
OnConnectDisconnect(c, reason) == SetConnectionState(c, "disconnected")

\* The socket emits `disconnect`: its listeners run in the order they were
\* added, setupEventListeners' first.
EmitDisconnect(c, reason) ==
    OnConnectDisconnect(OnSetupDisconnect(c, reason), reason)

\* socket.disconnect() of socket.io: a connected socket emits `disconnect`
\* with "io client disconnect" at once; the socket never reconnects.
SocketDisconnectCall(c) ==
    IF c.socket.connected
    THEN EmitDisconnect([c EXCEPT !.socket.connected = FALSE,
                                  !.socket.active = FALSE],
                        "io client disconnect")
    ELSE [c EXCEPT !.socket.active = FALSE]

\* ChatService.disconnect.
ChatDisconnectState(c) ==
    LET c1 == IF c.socket.open
              THEN LET a == IF c.currentMeetingId # Null
                            THEN LeaveRoom(c, c.currentMeetingId) ELSE c
                   IN  [SocketDisconnectCall(a) EXCEPT !.socket = NoChatSocket]
              ELSE c
    IN  SetConnectionState([c1 EXCEPT !.currentMeetingId = Null], "disconnected")

\* ChatService.connect.
ChatConnectState(c, meetingId) ==
    IF c.url # "set" THEN SetConnectionState(c, "error")
    ELSE IF c.socket.open /\ c.socket.connected /\ c.currentMeetingId = meetingId
    THEN c
    ELSE LET c1 == IF c.socket.open THEN ChatDisconnectState(c) ELSE c
         IN  IF ~c1.tokens \/ c1.user = Null
             THEN SetConnectionState(c1, "error")
             ELSE [SetConnectionState(c1, "connecting") EXCEPT
                     !.currentMeetingId = meetingId,
                     !.socket = [open |-> TRUE, connected |-> FALSE,
                                 active |-> TRUE, user |-> c1.user,
                                 meetingId |-> meetingId, emitted |-> <<>>]]

\* The `connect` listener of connect(): with the user and the meeting it was
\* created with.
OnChatConnect(c) ==
    LET c1 == SetConnectionState(c, "connected")
        c2 == IF c1.socket.open /\ c1.socket.user # Null
              THEN ChatEmit(c1, "newUser") ELSE c1
    IN  JoinRoom(c2, c.socket.meetingId)

\* The module is evaluated: CHAT_SERVICE_URL is read from the environment.
ChatLoad(url) ==
    /\ chat.url = "unloaded"
    /\ chat' = [chat EXCEPT !.url = url, !.log = ChatLog("load")]
    /\ UNCHANGED notChat

ChatLoaded == chat.url # "unloaded"

AuthLogin(user) ==
    /\ ChatLoaded
    /\ chat.user = Null
    /\ chat' = [chat EXCEPT !.user = user, !.tokens = TRUE, !.log = ChatLog("login")]
    /\ UNCHANGED notChat

AuthLogout ==
    /\ ChatLoaded
    /\ chat.user # Null
    /\ chat' = [chat EXCEPT !.user = Null, !.tokens = FALSE, !.log = ChatLog("logout")]
    /\ UNCHANGED notChat

ChatConnect(meetingId) ==
    /\ ChatLoaded
    /\ chat' = ChatConnectState([chat EXCEPT !.log = ChatLog("connect")], meetingId)
    /\ UNCHANGED notChat

ChatDisconnect ==
    /\ ChatLoaded
    /\ chat' = ChatDisconnectState([chat EXCEPT !.log = ChatLog("disconnect")])
    /\ UNCHANGED notChat

\* sendMessage: only on a connected socket with a meeting.
ChatSendMessage ==
    /\ ChatLoaded
    /\ chat' =
         LET c == [chat EXCEPT !.log = ChatLog("sendMessage")]
         IN  IF ~c.socket.open \/ ~c.socket.connected \/ c.currentMeetingId = Null
             THEN c
             ELSE IF Len(c.socket.emitted) < MaxEmits
             THEN ChatEmit(c, "chat:message") ELSE c
    /\ UNCHANGED notChat

\* The socket connects, for the first time or again: a new connection.
ChatSocketConnect ==
    /\ chat.socket.open
    /\ ~chat.socket.connected /\ chat.socket.active
    /\ chat' = OnChatConnect([chat EXCEPT !.socket.connected = TRUE,
                                          !.socket.emitted = <<>>,
                                          !.log = ChatLog("socketConnect")])
    /\ UNCHANGED notChat

\* `connect_error`: both listeners set 'error'.
ChatSocketConnectError ==
    /\ chat.socket.open
    /\ ~chat.socket.connected /\ chat.socket.active
    /\ chat' = SetConnectionState(
                  SetConnectionState([chat EXCEPT !.log = ChatLog("connect_error")],
                                     "error"),
                  "error")
    /\ UNCHANGED notChat

\* The server or the network drops the connection.
ChatSocketDrop(reason) ==
    /\ chat.socket.open
    /\ chat.socket.connected
    /\ chat' = EmitDisconnect(
                  [chat EXCEPT !.socket.connected = FALSE,
                               !.socket.active = (reason # "io server disconnect"),
                               !.log = ChatLog("socketDisconnect")],
                  reason)
    /\ UNCHANGED notChat

NextChat ==
    \/ \E url \in {"set", "empty"} : ChatLoad(url)
    \/ \E user \in ChatUsers : AuthLogin(user)
    \/ AuthLogout
    \/ \E meetingId \in ChatMeetings : ChatConnect(meetingId)
    \/ ChatDisconnect
    \/ ChatSendMessage
    \/ ChatSocketConnect
    \/ ChatSocketConnectError
    \/ \E reason \in DropReasons : ChatSocketDrop(reason)

\* ------------------------------------------------ API client and auth store
\* lib/api-client: apiFetch and tryRefreshTokens, the auth store they read
\* and write, and the refresh timer of useAuthSession.

MaxApiCalls == 2

MaxRequests == 3

ApiCallIds == 1..MaxApiCalls

\* The tokens a login or a refresh can deliver; Null is `tokens: null`.
TokenIds == {1, 2}

\* What `await fetch(url, init)` gives: a response that is ok, a 401, another
\* status, or a rejection (the network failed).
Statuses == {"ok", "401", "500", "rejected"}

notApi == <<voice, starts, hook, mesh, net, joined, wire, vsession, vconfig, chat, uchat, room>>

ApiLog(op) == [op |-> op, request |-> Null, ok |-> FALSE, waiters |-> {}]

\* One apiFetch call, from its first fetch to the value or error it ends with.
NoCall ==
    [phase |-> "idle", attempts |-> 0, retry |-> TRUE, responses |-> <<>>,
     awaits |-> Null, refreshed |-> "none", result |-> "none"]

InitApi ==
    [user |-> Null, tokens |-> Null, isAuthenticated |-> FALSE,
     refreshPromise |-> Null, requests |-> {}, nextRequest |-> 1, settled |-> 0,
     timer |-> FALSE, calls |-> [c \in ApiCallIds |-> NoCall],
     log |-> ApiLog("init")]

\* useAuthSession's effect, run for the tokens the store now holds: the
\* cleanup clears the timer of the previous tokens, and a timer is armed when
\* there are tokens to refresh.
UseAuthSession(a) == [a EXCEPT !.timer = (a.tokens # Null)]

Login(a, user, tokens) ==
    UseAuthSession([a EXCEPT !.user = user, !.tokens = tokens, !.isAuthenticated = TRUE])

Logout(a) ==
    UseAuthSession([a EXCEPT !.user = Null, !.tokens = Null, !.isAuthenticated = FALSE])

SetTokens(a, tokens) ==
    UseAuthSession([a EXCEPT !.tokens = tokens,
                             !.isAuthenticated = a.isAuthenticated /\ tokens # Null])

\* refreshAuthTokens(refreshToken): one request to the token endpoint.
RefreshAuthTokens(a, by) ==
    [a EXCEPT !.requests = @ \cup {[id |-> a.nextRequest, by |-> by]},
              !.nextRequest = @ + 1]

\* fetch(url, init) of one attempt.
Fetch(call, retry) ==
    [call EXCEPT !.phase = "fetching", !.attempts = @ + 1, !.retry = retry,
                 !.awaits = Null]

\* The call ends: with the parsed body, or by throwing.
Finish(call, result) ==
    [call EXCEPT !.phase = "done", !.result = result, !.awaits = Null]

RetryFetchAgain(call) == Fetch(call, TRUE)

\* `return apiFetch<T>(path, options, false)`.
RetryFetch(call) == Fetch(call, FALSE)

\* apiFetch after `await tryRefreshTokens()`.
AfterRefresh(call, refreshed) ==
    IF refreshed
    THEN RetryFetch([call EXCEPT !.refreshed = "yes"])
    ELSE Finish([call EXCEPT !.refreshed = "no"], "ApiError")

TryRefreshTokensUnshared(a, c) ==
    IF a.tokens = Null
    THEN [a EXCEPT !.calls[c] = AfterRefresh(@, FALSE)]
    ELSE LET b == [RefreshAuthTokens(a, "api") EXCEPT !.refreshPromise = a.nextRequest]
         IN  [b EXCEPT !.calls[c].phase = "refreshing",
                       !.calls[c].awaits = b.refreshPromise]

\* tryRefreshTokens as called by apiFetch for call c: false at once without a
\* refresh token; otherwise the call waits for the shared promise, which is
\* created when there is none.
TryRefreshTokens(a, c) ==
    IF a.tokens = Null
    THEN [a EXCEPT !.calls[c] = AfterRefresh(@, FALSE)]
    ELSE LET b == IF a.refreshPromise = Null
                  THEN [RefreshAuthTokens(a, "api") EXCEPT !.refreshPromise = a.nextRequest]
                  ELSE a
         IN  [b EXCEPT !.calls[c].phase = "refreshing",
                       !.calls[c].awaits = b.refreshPromise]

\* apiFetch after `await fetch(url, init)`.
OnResponse(a, c, status) ==
    LET got == [a EXCEPT !.calls[c].responses = Append(@, status)]
    IN  IF status = "rejected" THEN [got EXCEPT !.calls[c] = Finish(@, "TypeError")]
        ELSE IF status = "ok" THEN [got EXCEPT !.calls[c] = Finish(@, "ok")]
        ELSE IF status = "401" /\ a.calls[c].retry THEN TryRefreshTokens(got, c)
        ELSE [got EXCEPT !.calls[c] = Finish(@, "ApiError")]

\* The promise chain of tryRefreshTokens once the request r has settled: then
\* or catch, finally, and the continuation of every apiFetch awaiting it.
OnApiRefreshSettled(a, r, ok, tokens) ==
    LET stored == IF ok THEN SetTokens(a, tokens) ELSE Logout(a)
        waiters == {c \in ApiCallIds : /\ a.calls[c].phase = "refreshing"
                                       /\ a.calls[c].awaits = r.id}
    IN  [stored EXCEPT
            !.refreshPromise = Null,
            !.settled = @ + 1,
            !.calls = [c \in ApiCallIds |->
                          IF c \in waiters THEN AfterRefresh(a.calls[c], ok)
                          ELSE a.calls[c]],
            !.log = [op |-> "refreshSettled", request |-> r.id, ok |-> ok,
                     waiters |-> waiters]]

\* The timer callback of useAuthSession after `await refreshAuthTokens(..)`.
OnTimerRefreshSettled(a, r, ok, tokens) ==
    [(IF ok THEN SetTokens(a, tokens) ELSE Logout(a)) EXCEPT
        !.log = [ApiLog("timerRefreshSettled") EXCEPT !.request = r.id, !.ok = ok]]

StoreLogin(tokens) ==
    /\ api' = [Login(api, 1, tokens) EXCEPT !.log = ApiLog("login")]
    /\ UNCHANGED notApi

StoreLogout ==
    /\ api' = [Logout(api) EXCEPT !.log = ApiLog("logout")]
    /\ UNCHANGED notApi

\* A caller starts apiFetch(path, options).
ApiFetch(c) ==
    /\ api.calls[c].phase \in {"idle", "done"}
    /\ api' = [api EXCEPT !.calls[c] = Fetch(NoCall, TRUE), !.log = ApiLog("apiFetch")]
    /\ UNCHANGED notApi

\* The fetch of call c settles.
ApiResponse(c, status) ==
    /\ api.calls[c].phase = "fetching"
    /\ api.nextRequest <= MaxRequests
    /\ api' = [OnResponse(api, c, status) EXCEPT !.log = ApiLog("response")]
    /\ UNCHANGED notApi

\* The timer of useAuthSession fires and its callback asks for new tokens.
AuthSessionTimer ==
    /\ api.timer
    /\ api.nextRequest <= MaxRequests
    /\ api' = [RefreshAuthTokens(api, "timer") EXCEPT !.timer = FALSE,
                                                      !.log = ApiLog("timer")]
    /\ UNCHANGED notApi

\* A request to the token endpoint settles: new tokens, or an error.
RefreshSettled(r, ok, tokens) ==
    /\ r \in api.requests
    /\ LET gone == [api EXCEPT !.requests = @ \ {r}]
       IN  api' = IF r.by = "api" THEN OnApiRefreshSettled(gone, r, ok, tokens)
                  ELSE OnTimerRefreshSettled(gone, r, ok, tokens)
    /\ UNCHANGED notApi

NextApi ==
    \/ \E tokens \in TokenIds : StoreLogin(tokens)
    \/ StoreLogout
    \/ \E c \in ApiCallIds : ApiFetch(c)
    \/ \E c \in ApiCallIds, status \in Statuses : ApiResponse(c, status)
    \/ AuthSessionTimer
    \/ \E id \in 1..MaxRequests, by \in {"api", "timer"}, ok \in BOOLEAN, tokens \in TokenIds :
          RefreshSettled([id |-> id, by |-> by], ok, tokens)

\* -------------------------------------------------------------------- useChat
\* One mounted useChat on one meeting, the messages the backend has stored
\* for that meeting, and the chat:message events on their way to the hook.

MaxMessages == 3

MaxLoads == 2

MsgIds == 1..MaxMessages

LoadIds == 1..MaxLoads

notUchat == <<voice, starts, hook, mesh, net, joined, wire, vsession, vconfig, chat, api, room>>

UchatLog(op) == [op |-> op, id |-> Null, before |-> <<>>]

\* A loadHistory call: not made, waiting for the backend, or answered with
\* the history the backend had when it answered.
NoLoad == [state |-> "idle", history |-> <<>>]

InitUchat ==
    [mounted |-> FALSE, messages |-> <<>>, isLoadingHistory |-> FALSE, error |-> FALSE,
     loads |-> [l \in LoadIds |-> NoLoad],
     stored |-> 0, inbox |-> {}, delivered |-> {},
     log |-> UchatLog("init")]

\* The messages of the meeting in the backend, oldest first.
History(n) == [i \in 1..n |-> i]

\* loadHistory up to its await.
LoadHistory(u, l) ==
    [u EXCEPT !.isLoadingHistory = TRUE, !.error = FALSE, !.loads[l].state = "sent"]

\* loadHistory after `await chatService.loadHistory(..)` resolved.
OnHistory(u, history) ==
    IF u.mounted
    THEN [u EXCEPT !.messages = history, !.isLoadingHistory = FALSE]
    ELSE u

\* loadHistory after the await rejected.
OnHistoryError(u) ==
    IF u.mounted
    THEN [u EXCEPT !.error = TRUE, !.isLoadingHistory = FALSE]
    ELSE u

OnMessageNoDedup(u, id) ==
    IF u.mounted
    THEN [u EXCEPT !.messages = Append(@, id), !.delivered = @ \cup {id}]
    ELSE u

\* The subscriber useChat gives to chatService.onMessage.
OnMessage(u, id) ==
    IF u.mounted
    THEN [u EXCEPT !.messages = IF \E i \in 1..Len(@) : @[i] = id THEN @ ELSE Append(@, id),
                   !.delivered = @ \cup {id}]
    ELSE u

\* The hook mounts: isMountedRef is set and the load effect calls loadHistory.
UchatMount ==
    /\ ~uchat.mounted
    /\ uchat.log.op = "init"
    /\ uchat' = [LoadHistory([uchat EXCEPT !.mounted = TRUE], 1) EXCEPT !.log = UchatLog("mount")]
    /\ UNCHANGED notUchat

\* reloadHistory(), or the load effect running again.
UchatReloadHistory(l) ==
    /\ uchat.mounted
    /\ uchat.loads[l].state = "idle"
    /\ uchat' = [LoadHistory(uchat, l) EXCEPT !.log = UchatLog("reload")]
    /\ UNCHANGED notUchat

\* Somebody in the meeting sends a message: the backend stores it and
\* broadcasts chat:message to the room.
BackendMessage ==
    /\ uchat.stored < MaxMessages
    /\ uchat' = [uchat EXCEPT !.stored = @ + 1, !.inbox = @ \cup {uchat.stored + 1},
                              !.log = UchatLog("stored")]
    /\ UNCHANGED notUchat

\* The backend answers a history request with what it has stored.
BackendHistory(l) ==
    /\ uchat.loads[l].state = "sent"
    /\ uchat' = [uchat EXCEPT !.loads[l] = [state |-> "served", history |-> History(uchat.stored)],
                              !.log = UchatLog("served")]
    /\ UNCHANGED notUchat

\* The answer reaches the hook.
UchatHistoryLoaded(l) ==
    /\ uchat.loads[l].state = "served"
    /\ uchat' = [OnHistory(uchat, uchat.loads[l].history) EXCEPT
                    !.loads[l] = NoLoad,
                    !.log = [UchatLog("history") EXCEPT !.before = uchat.messages]]
    /\ UNCHANGED notUchat

\* The history request fails.
UchatHistoryFailed(l) ==
    /\ uchat.loads[l].state = "sent"
    /\ uchat' = [OnHistoryError(uchat) EXCEPT !.loads[l] = NoLoad,
                                              !.log = UchatLog("historyFailed")]
    /\ UNCHANGED notUchat

\* A chat:message event reaches the chat service, which calls its subscribers.
UchatMessage(id) ==
    /\ id \in uchat.inbox
    /\ uchat.mounted
    /\ uchat' = [OnMessage(uchat, id) EXCEPT
                    !.inbox = @ \ {id},
                    !.log = [op |-> "message", id |-> id, before |-> uchat.messages]]
    /\ UNCHANGED notUchat

UchatUnmount ==
    /\ uchat.mounted
    /\ uchat' = [uchat EXCEPT !.mounted = FALSE, !.log = UchatLog("unmount")]
    /\ UNCHANGED notUchat

NextUchat ==
    \/ UchatMount
    \/ \E l \in LoadIds : UchatReloadHistory(l)
    \/ BackendMessage
    \/ \E l \in LoadIds : BackendHistory(l)
    \/ \E l \in LoadIds : UchatHistoryLoaded(l)
    \/ \E l \in LoadIds : UchatHistoryFailed(l)
    \/ \E id \in MsgIds : UchatMessage(id)
    \/ UchatUnmount

\* ------------------------------------------------- MeetingRoom: voice effect
\* The voice service as MeetingRoom drives it: each run of the voice effect
\* calls startVoiceChat(meeting.id), its cleanup cancels it and stops the
\* service, and a start that resolves after its cleanup is stopped at once.

MaxEffects == 3

EffectIds == 1..MaxEffects

RoomMeetings == {1, 2}

notRoom == <<starts, hook, mesh, net, joined, wire, vsession, vconfig, chat, api, uchat>>

\* One run of the effect: where its startVoiceChat is, its `cancelled` and
\* `cleanup` variables, the stream it was given, whether the `stop` it was
\* given has been called.
NoEffect ==
    [pc |-> "none", meetingId |-> Null, cancelled |-> FALSE, cleanup |-> FALSE,
     returned |-> Null, stopCalled |-> FALSE]

InitRoom == [count |-> 0, effects |-> [e \in EffectIds |-> NoEffect]]

\* The `.then` of the effect for a start that resolved with `stream`: a
\* cancelled run calls stop(), another keeps it as its cleanup.
ThenStarted(v, r, e, stream) ==
    LET got == [r EXCEPT !.effects[e].pc = "resolved", !.effects[e].returned = stream]
    IN  IF r.effects[e].cancelled
        THEN [voice |-> StopVoiceChatState(v),
              room |-> [got EXCEPT !.effects[e].stopCalled = TRUE]]
        ELSE [voice |-> v, room |-> [got EXCEPT !.effects[e].cleanup = TRUE]]

\* startVoiceChat from `await createSocket(..)` on: the handlers are
\* registered and { stop, localStream } is returned, localStream being the
\* module variable as it is then.
StartReturns(v, r, e) ==
    ThenStarted([v EXCEPT !.socket.handlers = @ + 1, !.log = EmptyLog("startReturned")],
                r, e, v.localStream)

\* The effect runs: startVoiceChat(meeting.id) up to its first await.
RoomEffect(m) ==
    /\ room.count < MaxEffects
    /\ room.count > 0 => room.effects[room.count].cancelled
    /\ voice' = [voice EXCEPT !.currentMeetingId = m, !.log = EmptyLog("startVoiceChat")]
    /\ room' = [room EXCEPT !.count = @ + 1,
                            !.effects[room.count + 1] =
                                [NoEffect EXCEPT !.pc = "getUserMedia", !.meetingId = m]]
    /\ UNCHANGED notRoom

\* getUserMedia resolved for run e: localStream is set, then createSocket.
RoomMediaGranted(e) ==
    /\ room.effects[e].pc = "getUserMedia"
    /\ Cardinality(DOMAIN voice.streams) < MaxStreams
    /\ LET got == [voice EXCEPT !.streams = NewStream(@),
                                !.localStream = FreeObj(voice.streams)]
       IN  IF voice.socket.open
           THEN LET next == StartReturns(got, room, e)
                IN  voice' = next.voice /\ room' = next.room
           ELSE /\ voice' = [got EXCEPT
                               !.socket = [open |-> TRUE, id |-> Null, handlers |-> 0,
                                           meetingId |-> room.effects[e].meetingId],
                               !.log = EmptyLog("createSocket")]
                /\ room' = [room EXCEPT !.effects[e].pc = "connect"]
    /\ UNCHANGED notRoom

\* getUserMedia rejected: the effect's catch reports the error.
RoomMediaDenied(e) ==
    /\ room.effects[e].pc = "getUserMedia"
    /\ voice' = [voice EXCEPT !.log = EmptyLog("mediaDenied")]
    /\ room' = [room EXCEPT !.effects[e].pc = "rejected"]
    /\ UNCHANGED notRoom

\* The socket's `connect`: the run waiting in createSocket goes on.
RoomSocketConnect(e) ==
    /\ room.effects[e].pc = "connect"
    /\ voice.socket.open /\ voice.socket.id = Null
    /\ LET next == StartReturns([voice EXCEPT !.socket.id = LocalId], room, e)
       IN  voice' = next.voice /\ room' = next.room
    /\ UNCHANGED notRoom

\* `connect_error` while createSocket waits: the start rejects.
RoomSocketConnectError(e) ==
    /\ room.effects[e].pc = "connect"
    /\ voice.socket.open /\ voice.socket.id = Null
    /\ voice' = [voice EXCEPT !.log = EmptyLog("connect_error")]
    /\ room' = [room EXCEPT !.effects[e].pc = "rejected"]
    /\ UNCHANGED notRoom

\* The cleanup of the latest run (meeting.id changed, or the page unmounts):
\* cancelled = true; cleanup?.(); stopVoiceChat(). A start waiting for the
\* `connect` of the socket this closes never settles.
RoomCleanup ==
    /\ room.count > 0
    /\ ~room.effects[room.count].cancelled
    /\ voice' = StopVoiceChatState(voice)
    /\ room' = [room EXCEPT
                  !.effects = [e \in EffectIds |->
                                 IF e = room.count
                                 THEN [@[e] EXCEPT !.cancelled = TRUE,
                                                   !.stopCalled = @ \/ room.effects[e].cleanup,
                                                   !.pc = IF @ = "connect" THEN "hung" ELSE @]
                                 ELSE IF @[e].pc = "connect" THEN [@[e] EXCEPT !.pc = "hung"]
                                 ELSE @[e]]]
    /\ UNCHANGED notRoom

NextRoom ==
    \/ \E m \in RoomMeetings : RoomEffect(m)
    \/ \E e \in EffectIds : RoomMediaGranted(e)
    \/ \E e \in EffectIds : RoomMediaDenied(e)
    \/ \E e \in EffectIds : RoomSocketConnect(e)
    \/ \E e \in EffectIds : RoomSocketConnectError(e)
    \/ RoomCleanup

\* ------------------------------------------------------------ specifications
vars == <<voice, starts, hook, mesh, net, joined, wire, vsession, vconfig, chat, api, uchat, room>>

Init ==
    /\ voice = InitVoice
    /\ starts = [k \in CallIds |-> Idle]
    /\ hook = InitHook
    /\ mesh = [c \in Clients |-> InitVoice]
    /\ net = {}
    /\ joined = <<>>
    /\ wire = {}
    /\ vsession = InitSession
    /\ vconfig = InitConfig
    /\ chat = InitChat
    /\ api = InitApi
    /\ uchat = InitUchat
    /\ room = InitRoom

\* The voice service of one browser, with every event its socket and its
\* connections can deliver.
Spec == Init /\ [][Next]_vars

\* One useVoiceWebRTC instance.
SpecHook == Init /\ [][NextHook]_vars

\* A room of browsers running the voice service, joined by the relay.
SpecMesh == Init /\ [][NextMesh]_vars

\* One useVoiceSession instance and the clock.
SpecSession == Init /\ [][NextSession]_vars

\* Calls of getVoiceConfig.
SpecConfig == Init /\ [][NextConfig]_vars

\* The chat service, its socket and the auth store.
SpecChat == Init /\ [][NextChat]_vars

\* The API client, the auth store and the token endpoint.
SpecApi == Init /\ [][NextApi]_vars

\* One useChat, the backend's history and the chat:message events.
SpecUchat == Init /\ [][NextUchat]_vars

\* The voice service driven by MeetingRoom's voice effect.
SpecRoom == Init /\ [][NextRoom]_vars

\* ------------------------------------------------- voice service: properties

Listening(s) == s.socket.handlers >= 1

\* C1: in the voice service at most one connection object exists for a peer
\* id at any time, and it is the one `peers` holds: a creation request for an
\* id already in `peers` constructs nothing.
C1_OneConnectionPerId ==
    /\ \A i \in Ids : Cardinality(LiveObjs(voice, i)) <= 1
    /\ \A o \in DOMAIN voice.conns :
          ~voice.conns[o].destroyed =>
              /\ voice.conns[o].peerId \in DOMAIN voice.peers
              /\ voice.peers[voice.conns[o].peerId] = o
    /\ \A j, k \in 1..Len(voice.log.constructed) :
          voice.log.constructed[j].peerId = voice.log.constructed[k].peerId => j = k

\* A signal was routed to the connection that `introduction` had created,
\* and nothing was constructed.
C1_Witness ==
    /\ voice.log.op = "signal"
    /\ voice.log.constructed = <<>>
    /\ voice.log.signalled # <<>>
    /\ voice.log.peer \in DOMAIN voice.peers
    /\ voice.conns[voice.peers[voice.log.peer]].cause = "introduction"

\* C3: after a `signal(to = local, from = x)` or a `newUserConnected(x)` that
\* the tracker handled, in whichever order and however often they came, there
\* is exactly one record for x, and a record that existed is the same one.
C3_RaceTolerance ==
    [][\A x \in Ids :
         (/\ voice'.log.peer = x
          /\ Listening(voice)
          /\ x # voice.socket.id
          /\ \/ NewUserConnected(x, {})
             \/ \E d \in Data : Signal(voice.socket.id, x, d, {}))
         => /\ x \in DOMAIN voice'.peers
            /\ Cardinality(LiveObjs(voice', x)) = 1
            /\ x \in DOMAIN voice.peers => voice'.peers[x] = voice.peers[x]]_vars

\* The join notification came after a signal had created the record.
C3_Witness ==
    /\ voice.log.op = "newUserConnected"
    /\ voice.log.constructed = <<>>
    /\ voice.log.peer \in DOMAIN voice.peers
    /\ voice.conns[voice.peers[voice.log.peer]].cause = "signal"

\* C5: after the signaling socket reported `disconnect`, the peer map is
\* empty and every connection has been destroyed.
C5_DisconnectTearsDownAll ==
    /\ voice.log.op = "disconnect" =>
          voice.peers = EmptyMap /\ voice.conns = EmptyMap
    /\ hook.log.op = "disconnect" =>
          hook.peersRef = EmptyMap /\ hook.conns = EmptyMap

\* C6: once the record of x has been torn down, only an `introduction` or a
\* `newUserConnected` brings a record for x back.
C6_OnlyAnnouncementRecreates ==
    [][\A x \in Ids :
         (x \in voice.tornDown /\ x \in DOMAIN voice'.peers)
         => voice'.log.op \in {"introduction", "newUserConnected"}]_vars

\* C8: a `signal(to = local, from = p, data)` for a p without a record
\* constructs one connection for p with initiator = false and passes `data`
\* to it; for a p with a record it constructs nothing, passes `data` to that
\* connection and leaves its role as it was.
C8_LazyCreation ==
    [][\A p \in Ids, d \in Data :
         (/\ voice'.log.op = "signal" /\ voice'.log.peer = p
          /\ Listening(voice)
          /\ p # voice.socket.id
          /\ Signal(voice.socket.id, p, d, {}))
         => /\ p \in DOMAIN voice'.peers
            /\ voice'.log.signalled # <<>>
            /\ \A j \in 1..Len(voice'.log.signalled) :
                  voice'.log.signalled[j] = [obj |-> voice'.peers[p], data |-> d]
            /\ IF p \in DOMAIN voice.peers
               THEN /\ voice'.log.constructed = <<>>
                    /\ voice'.peers[p] = voice.peers[p]
                    /\ voice'.conns = voice.conns
               ELSE /\ voice'.log.constructed =
                          <<[peerId |-> p, initiator |-> FALSE,
                             obj |-> voice'.peers[p]]>>
                    /\ ~voice'.conns[voice'.peers[p]].initiator]_vars

\* A signal from an unknown peer created its record as responder and fed it.
C8_Witness ==
    /\ voice.log.op = "signal"
    /\ Len(voice.log.constructed) = 1
    /\ ~voice.log.constructed[1].initiator
    /\ voice.log.signalled # <<>>
    /\ voice.log.signalled[1].obj = voice.log.constructed[1].obj

\* C9: `userDisconnected(x)`, or the close or error of x's connection, removes
\* x's record, calls destroy on x's connection once and onPeerLeft(x) once,
\* and leaves every other record and connection as it was.
C9_TeardownIsolated ==
    [][\A x \in DOMAIN voice.peers :
         (/\ voice'.log.peer = x
          /\ \/ Listening(voice) /\ UserDisconnected(x)
             \/ \E op \in {"close", "error"} : PeerClosed(voice.peers[x], op))
         => /\ voice'.peers = Remove(voice.peers, x)
            /\ voice'.conns = Remove(voice.conns, voice.peers[x])
            /\ voice'.log.destroyCalls = <<voice.peers[x]>>
            /\ voice'.log.left = <<x>>]_vars

\* One of two records was torn down, the other is still there.
C9_Witness ==
    /\ voice.log.op \in {"userDisconnected", "close", "error"}
    /\ voice.log.left = <<voice.log.peer>>
    /\ voice.log.peer \notin DOMAIN voice.peers
    /\ voice.peers # EmptyMap

\* C10: no failure leaves the `introduction` handler, and every id of the
\* roster whose own construction did not fail has its record afterwards.
C10_FailureContained ==
    [][\A roster \in Rosters, failing \in Failings :
         (/\ voice'.log.op = "introduction"
          /\ Listening(voice)
          /\ Introduction(roster, failing))
         => /\ ~voice'.log.escaped
            /\ \A i \in (Range(roster) \ failing) \ {voice.socket.id} :
                  i \in DOMAIN voice'.peers]_vars

\* ---------------------------------------------------- the room: properties

Role(a, b) == mesh[a].conns[mesh[a].peers[b]].initiator

C2_HookOneLiveConnectionPerId ==
    /\ \A i \in Ids : Cardinality(LiveObjs(hook, i)) <= 1
    /\ \A o \in DOMAIN hook.conns :
          ~hook.conns[o].destroyed =>
              /\ hook.conns[o].peerId \in DOMAIN hook.peersRef
              /\ hook.peersRef[hook.conns[o].peerId] = o

ServiceIgnoresForeignSignal ==
    \A to \in Ids, from \in Ids, d \in Data :
        (/\ voice'.log.op = "signal"
         /\ to # voice.socket.id
         /\ Signal(to, from, d, {}))
        => /\ voice'.peers = voice.peers
           /\ voice'.conns = voice.conns
           /\ voice'.log.signalled = <<>>

HookIgnoresForeignSignal ==
    \A k \in DOMAIN hook.sockets, to \in Ids, from \in Ids, d \in Data :
        (/\ hook'.log.op = "signal"
         /\ to # hook.sockets[k].id
         /\ HookSignal(k, to, from, d))
        => /\ hook'.peersRef = hook.peersRef
           /\ hook'.conns = hook.conns
           /\ hook'.log.signalled = <<>>

\* C7: a `signal` whose `to` is not the local socket id creates no record and
\* reaches no connection, in startVoiceChat's handler and in the hook's.
C7_ForeignSignalIgnored ==
    [][ServiceIgnoresForeignSignal /\ HookIgnoresForeignSignal]_vars

\* The half of C7 that is about startVoiceChat.
ServiceForeignSignalIgnored == [][ServiceIgnoresForeignSignal]_vars

\* ------------------------------------------- voice service: session lifetime

\* C11: stopVoiceChat never fails, whether or not there is anything to stop;
\* after it the peer map is empty and socket and local stream are null; it
\* destroys only connections not yet destroyed, closes only an open socket
\* and stops only a stream not yet stopped, so that a call that follows
\* another one at once releases nothing.
C11_StopIdempotent ==
    [][(voice'.log.op = "stopVoiceChat" /\ StopVoiceChat)
       => /\ ~voice'.log.escaped
          /\ voice'.peers = EmptyMap
          /\ voice'.socket = NoSocket
          /\ voice'.localStream = Null
          /\ \A j \in 1..Len(voice'.log.destroyCalls) :
                /\ voice'.log.destroyCalls[j] \in DOMAIN voice.conns
                /\ ~voice.conns[voice'.log.destroyCalls[j]].destroyed
          /\ voice'.log.closedSocket => voice.socket.open
          /\ voice'.log.stoppedStream # Null =>
                voice'.log.stoppedStream \in DOMAIN voice.streams
          /\ voice.log.op = "stopVoiceChat" =>
                /\ voice'.log.destroyCalls = <<>>
                /\ ~voice'.log.closedSocket
                /\ voice'.log.stoppedStream = Null]_vars

\* stopVoiceChat was called again before the connections that the call
\* before it destroyed had announced their close: it released nothing.
C11_Witness ==
    /\ voice.log.op = "stopVoiceChat"
    /\ voice.log.destroyCalls = <<>>
    /\ ClosePending(voice)

\* C12: a peer record exists only while the signaling socket does; when
\* stopVoiceChat returns, every stream obtained from getUserMedia has been
\* stopped, every connection destroyed and the socket closed; and while
\* there is no socket no step adds a peer record.
C12_RecordsWithinSession ==
    [][/\ voice'.peers # EmptyMap => voice'.socket.open
       /\ voice'.log.op = "stopVoiceChat" =>
             /\ voice'.streams = EmptyMap
             /\ \A o \in DOMAIN voice'.conns : voice'.conns[o].destroyed
             /\ ~voice'.socket.open
       /\ ~voice.socket.open => voice'.peers = EmptyMap]_vars

\* The parts of C12 that are about the peer records, the connections and
\* the socket.
RecordsNeedSocket ==
    [][/\ voice'.peers # EmptyMap => voice'.socket.open
       /\ voice'.log.op = "stopVoiceChat" =>
             /\ \A o \in DOMAIN voice'.conns : voice'.conns[o].destroyed
             /\ ~voice'.socket.open
       /\ ~voice.socket.open => voice'.peers = EmptyMap]_vars

\* C13: when getUserMedia is refused, the startVoiceChat call goes on
\* without a local stream: it opens the signaling socket and waits for it,
\* or registers its handlers on the socket there is.
C13_DeniedMediaStillJoins ==
    [][\A k \in CallIds :
         (voice'.log.op = "mediaDenied" /\ MediaDenied(k))
         => \/ voice'.socket.open /\ starts'[k].pc = "connect"
            \/ voice'.socket.handlers = voice.socket.handlers + 1]_vars

\* The `enabled` flag of the audio track that connection o sends.
MicFlag(o) == voice.streams[voice.conns[o].stream].enabled

Sending == {o \in Range(voice.peers) : voice.conns[o].stream \in DOMAIN voice.streams}

\* C17: the connections of the voice service never differ in the `enabled`
\* flag of the audio track they send, and right after
\* setMicrophoneEnabled(enabled) every one of them has that flag.
C17_SharedTrack ==
    /\ \A o \in Sending, q \in Sending : MicFlag(o) = MicFlag(q)
    /\ voice.log.op = "setMicrophoneEnabled" =>
          \A o \in Sending : MicFlag(o) = (voice.log.peer # Null)

\* ---------------------------------------------- useVoiceSession: properties

C15_SessionNotExpired ==
    (vsession.isMountedRef /\ vsession.session # Null)
    => vsession.session > vsession.now

\* C16: a failed scheduled renewal sets `error`, calls onError and leaves
\* session, timer and config as they were; a successful one replaces the
\* session and arms a new timer for it.
C16_RenewalOutcome ==
    [][/\ (/\ vsession'.log.op = "renewFailed"
           /\ vsession.isMountedRef
           /\ VsRenewFailed("renew"))
          => /\ vsession'.error /\ vsession'.log.onError
             /\ vsession'.session = vsession.session
             /\ vsession'.timer = vsession.timer
             /\ vsession'.config = vsession.config
       /\ \A lifetime \in Lifetimes :
            (/\ vsession'.log.op = "renewed"
             /\ vsession.isMountedRef
             /\ VsRenewed("renew", lifetime))
            => /\ vsession'.session = vsession.now + lifetime
               /\ vsession'.timer # Null
               /\ vsession'.timer >= vsession.now + MinDelayMs
               /\ vsession'.timer =
                      vsession.now + Max(lifetime - REFRESH_BUFFER_MS, MinDelayMs)
               /\ vsession'.error = vsession.error]_vars

\* A scheduled renewal failed while a session was held: the session is
\* still there and the error was reported.
C16_Witness ==
    /\ vsession.log.op = "renewFailed"
    /\ vsession.log.onError
    /\ vsession.session # Null

\* ----------------------------------------------- getVoiceConfig: properties

\* C18: getVoiceConfig never fails; when the request succeeded its result is
\* the backend's configuration as it came, and when the request failed it is
\* the local one: the server URL of the environment, that URL followed by
\* "/ws", the local ICE servers and requiresToken = true.
C18_ConfigFallback ==
    vconfig.called =>
        /\ ~vconfig.result.threw
        /\ vconfig.answer.ok => vconfig.result.value = vconfig.answer.config
        /\ ~vconfig.answer.ok =>
              LET url == IF vconfig.env.VITE_WEBRTC_URL # Unset
                         THEN vconfig.env.VITE_WEBRTC_URL
                         ELSE <<"http://localhost:9000">>
                  value == vconfig.result.value
              IN  /\ value.voiceServerUrl = url
                  /\ Len(value.signalUrl) = Len(url) + 1
                  /\ SubSeq(value.signalUrl, 1, Len(url)) = url
                  /\ value.signalUrl[Len(url) + 1] = "/ws"
                  /\ value.iceServers = GetLocalIceServers(vconfig.env)
                  /\ value.requiresToken

\* The request failed in an environment that names a server and an ICE
\* server: the fallback was built from them.
C18_Witness ==
    /\ vconfig.called
    /\ ~vconfig.answer.ok
    /\ vconfig.env.VITE_WEBRTC_URL \notin {Unset, <<>>}
    /\ Len(vconfig.result.value.iceServers) = 2

\* -------------------------------------------------- ChatService: properties

\* C19: ChatService.disconnect() ends in 'disconnected' with socket and
\* currentMeetingId cleared, from whatever state, and tells no subscriber
\* 'error' on the way.
C19_LocalDisconnectNoError ==
    [][(chat'.log.op = "disconnect" /\ ChatDisconnect)
       => /\ chat'.connectionState = "disconnected"
          /\ chat'.socket = NoChatSocket
          /\ chat'.currentMeetingId = Null
          /\ chat'.log.notified # <<>>
          /\ \A j \in 1..Len(chat'.log.notified) :
                chat'.log.notified[j] = "disconnected"]_vars

\* disconnect() closed a connected socket: the socket's `disconnect`
\* listeners ran, then disconnect() itself set the state.
C19_Witness ==
    /\ chat.log.op = "disconnect"
    /\ Len(chat.log.notified) = 2

\* C20: on a connection of the chat socket the first event emitted is
\* newUser and the second joinRoom, so that any chat:message comes after
\* both.
C20_RegisterBeforeChat ==
    (chat.socket.open /\ chat.socket.connected)
    => /\ Len(chat.socket.emitted) >= 2
       /\ chat.socket.emitted[1] = "newUser"
       /\ chat.socket.emitted[2] = "joinRoom"

\* ------------------------------------------------------ API client: properties

(* C21: apiFetch makes at most two HTTP attempts per call. A second attempt  *)
(* is made only after a 401 on the first and a refresh that succeeded, and   *)
(* then exactly one; a 401 on the retry or a failed refresh ends the call    *)
(* with an ApiError; a first response that is an error other than 401 ends   *)
(* the call after that one attempt.                                          *)
C21_AtMostTwoAttempts ==
    \A c \in ApiCallIds :
        LET call == api.calls[c]
            n == Len(call.responses)
        IN  /\ call.attempts <= 2
            /\ n <= call.attempts
            /\ call.attempts = 2 <=> (n >= 1 /\ call.responses[1] = "401" /\ call.refreshed = "yes")
            /\ (call.phase = "done" /\ call.responses[n] = "401") => call.result = "ApiError"
            /\ call.refreshed = "no" => (call.phase = "done" /\ call.result = "ApiError" /\ call.attempts = 1)
            /\ (n >= 1 /\ call.responses[1] \in {"500", "rejected"})
                   => (call.phase = "done" /\ call.attempts = 1)

\* A call that got a 401, refreshed, retried and got a 401 again has ended.
C21_Witness ==
    \E c \in ApiCallIds :
        /\ api.calls[c].responses = <<"401", "401">>
        /\ api.calls[c].phase = "done"
        /\ api.calls[c].result = "ApiError"

(* C22: at most one refresh request started by the API client is in flight, *)
(* and it is the one the shared promise stands for; every call waiting for a *)
(* refresh waits for that one; when it settles the promise is cleared and    *)
(* every call that waited continues with its outcome (a retry when it        *)
(* succeeded, an ApiError when it failed).                                   *)
C22_SharedRefresh ==
    LET mine == {r \in api.requests : r.by = "api"}
    IN  /\ Cardinality(mine) <= 1
        /\ \A r \in mine : api.refreshPromise = r.id
        /\ api.refreshPromise # Null => \E r \in mine : r.id = api.refreshPromise
        /\ \A c \in ApiCallIds :
               api.calls[c].phase = "refreshing"
                   => (api.refreshPromise # Null /\ api.calls[c].awaits = api.refreshPromise)
        /\ api.log.op = "refreshSettled"
               => /\ api.refreshPromise = Null
                  /\ \A c \in api.log.waiters :
                         IF api.log.ok
                         THEN api.calls[c].phase = "fetching" /\ api.calls[c].attempts = 2
                         ELSE api.calls[c].phase = "done" /\ api.calls[c].result = "ApiError"

\* Two calls shared a refresh that has just settled, and it was not the first
\* refresh the client started.
C22_Witness ==
    /\ api.log.op = "refreshSettled"
    /\ Cardinality(api.log.waiters) = 2
    /\ api.settled >= 2

(* C25: whenever isAuthenticated is false the stored tokens are null (so     *)
(* after logout() they stay null until the next login()).                    *)
C25_LoggedOutNoTokens == ~api.isAuthenticated => api.tokens = Null

\* ----------------------------------------------------------- useChat: properties

(* C23: the message list of useChat never holds two entries with the same   *)
(* messageId, and a chat:message whose id is already in the list leaves the  *)
(* list as it was.                                                           *)
C23_NoDuplicateMessages ==
    /\ \A i, j \in 1..Len(uchat.messages) :
           uchat.messages[i] = uchat.messages[j] => i = j
    /\ (uchat.log.op = "message" /\ \E i \in 1..Len(uchat.log.before) : uchat.log.before[i] = uchat.log.id)
           => uchat.messages = uchat.log.before

\* A chat:message arrived for a message the loaded history already held.
C23_Witness ==
    /\ uchat.log.op = "message"
    /\ \E i \in 1..Len(uchat.log.before) : uchat.log.before[i] = uchat.log.id
    /\ Len(uchat.messages) >= 2

(* C24: while the hook is mounted, every message the chat service delivered  *)
(* to it is in `messages`.                                                   *)
C24_DeliveredMessageKept ==
    uchat.mounted => \A id \in uchat.delivered : \E i \in 1..Len(uchat.messages) : uchat.messages[i] = id

\* ------------------------------------------------ MeetingRoom: properties

(* C26: once the most recent startVoiceChat issued by the voice effect has   *)
(* resolved and the stop it returned has not been called, the service's      *)
(* socket is open and was created with that call's meetingId, and the        *)
(* service's local stream is the one returned to that call.                  *)
C26_LatestStartOwnsService ==
    \A e \in EffectIds :
        (e = room.count /\ room.effects[e].pc = "resolved" /\ ~room.effects[e].stopCalled)
            => /\ voice.socket.open
               /\ voice.socket.meetingId = room.effects[e].meetingId
               /\ voice.localStream # Null
               /\ voice.localStream = room.effects[e].returned

\* ------------------------------------- voice service: handlers of the socket

(* C27: the socket carries at most one set of the service's event handlers,  *)
(* so that an accepted `signal` event is passed to the sender's connection   *)
(* no more than once and a membership event is handled once.                 *)
C27_EventHandledOnce ==
    /\ voice.socket.handlers <= 1
    /\ voice.log.op = "signal" => Len(voice.log.signalled) <= 1

\* ------------------------------------------- useVoiceSession: after disconnect

(* C28: from disconnect() until connect() is called again the session is     *)
(* null and no renewal timer is pending.                                     *)
C28_DisconnectedStaysIdle ==
    vsession.disconnected => (vsession.session = Null /\ vsession.timer = Null)

\* ------------------------------------------------ useVoiceWebRTC: its sockets

(* C29: the hook holds at most one signaling socket that it opened and has   *)
(* not closed.                                                               *)
C29_OneOpenSocket == Cardinality(DOMAIN hook.sockets) <= 1

\* ------------------------------------------------ chat service: a lost socket

(* C30: after the chat socket emitted `disconnect` with a reason other than  *)
(* 'io client disconnect' and its listeners have run, the connection state   *)
(* is 'error' and 'error' is the last state the subscribers were told.       *)
C30_DropEndsInError ==
    chat.log.op = "socketDisconnect"
        => /\ chat.connectionState = "error"
           /\ chat.log.notified # <<>>
           /\ chat.log.notified[Len(chat.log.notified)] = "error"

====
